---- MODULE Spec2Model ----
(***************************************************************************)
(* A model of the queueing-party discrete-event simulator: the scheduler   *)
(* (main_loop.rs), the queue / worker / token dispatch core (queue.rs) and *)
(* the shared-rate resource (shared_rate_resource.rs).                     *)
(*                                                                         *)
(* Handlers are closures in the source.  Here a handler is a record whose  *)
(* "kind" names the closure and whose other fields are what it captured.   *)
(* A panic (a failed assert!, a failed unwrap) is recorded in the variable *)
(* abort and stops the run.                                                *)
(***************************************************************************)
EXTENDS Integers, Sequences, FiniteSets, TLC

(***************************************************************************)
(* Bounds of the model.                                                    *)
(***************************************************************************)
\* how many events the initial handler of a queue run proposes at most
MaxInitialEvents == 3

Queues == {"Q1", "Q2"}
Workers == {1, 2}

\* results of sampling a LogNormal<f32> and of `as u64` on the sample
\* (rand_distr is not part of the repository): a distribution built with CV 0
\* yields its mean, truncated toward zero; any other one yields what its
\* generator produces, here any of a few tick counts, 0 included.
JitterSamples == {0, 1, 2}

Samples(dist) == IF dist.cv = 0 THEN {dist.mean} ELSE JitterSamples

Running == "Running"
ShuttingDown == "ShuttingDown"

NoAbort == "none"

VARIABLES
    \* main_loop.rs
    event_heap,            \* BinaryHeap<ScheduledEvent>: a set of records with unique ids
    simultaneous_events,   \* the batch being invoked, in shuffled order
    proposed_events,       \* what the handlers of the batch returned so far
    current_timestamp,
    pc,                    \* where main_loop is: "loop", "invoke", "push", "done"
    next_id,               \* identity of the next scheduled event (closures are distinct objects)
    events_dispatched,     \* the events_dispatched counter
    abort,                 \* NoAbort, or the panic that ended the run
    \* queue.rs
    subscribed_queues,     \* Worker.subscribed_queues, a Vec of queues per worker
    status,                \* the shared status cell of each worker
    listening_workers,     \* Queue.listening_workers
    deque,                 \* Queue.deque
    up,                    \* the up gauge per worker
    allow_drop,            \* Worker.allow_drop: TRUE once shut down (the worker is then dropped)
    worker_tokens_checked_out,  \* counter per <<worker, originating queue>>
    worker_token_duration,      \* histogram observations, in ticks
    \* shared_rate_resource.rs
    partitions,
    resource_timer,
    resource_timer_last_updated_real_time,
    utilization_counter,
    load_counter,
    wakeup_event_memo,     \* VecDeque<u64>, most recent first
    tenancies,             \* BinaryHeap<SharedRateTenancy>: a set of records with unique ids
    \* pool_manager.rs
    instances,             \* PoolManager.instances: the live instances, oldest first
    constructed,           \* how often instance_constructor was called
    shutdowns,             \* the instances whose shutdown callable was called, in order
    pool_call,             \* the last call on the pool manager and the pool before it
    \* a second run of the same simulation
    run,                   \* 1 in the first run, 2 in the replay
    first_run,             \* what the first run logged
    \* history
    choose_log,            \* the queues chosen by Worker::listen (SliceRandom::choose), in order
    sample_log,            \* the delays sampled by main_loop, in order
    initial_handler,       \* the initial_handler main_loop was called with
    invocations,           \* the handler invocations of main_loop, in order
    dispatch_log,          \* the handlers invoked with a token, in order
    tenancy_log,           \* the tenancy handlers invoked, in order
    tenancy_changes        \* the pushes and pops of the tenancy heap, in order

vars == <<event_heap, simultaneous_events, proposed_events, current_timestamp, pc,
          next_id, events_dispatched, abort, subscribed_queues, status,
          listening_workers, deque, up, allow_drop, worker_tokens_checked_out,
          worker_token_duration, partitions, resource_timer,
          resource_timer_last_updated_real_time, utilization_counter, load_counter,
          wakeup_event_memo, tenancies, initial_handler, invocations, dispatch_log,
          tenancy_log, instances, constructed, shutdowns, pool_call, run, first_run,
          sample_log, choose_log, tenancy_changes>>

queueVars == <<subscribed_queues, status, listening_workers, deque, up, allow_drop,
               worker_tokens_checked_out, worker_token_duration, dispatch_log,
               choose_log>>
poolVars == <<instances, constructed, shutdowns, pool_call>>
replayVars == <<run, first_run>>
srrVars == <<partitions, resource_timer, resource_timer_last_updated_real_time,
             utilization_counter, load_counter, wakeup_event_memo, tenancies,
             tenancy_log, tenancy_changes>>

(***************************************************************************)
(* Helpers on sequences and sets.                                          *)
(***************************************************************************)
Range(s) == {s[i] : i \in DOMAIN s}

Max(a, b) == IF a >= b THEN a ELSE b

\* every order in which the elements of S can be laid out
Permutations_(S) ==
    {f \in [1..Cardinality(S) -> S] : \A i, j \in 1..Cardinality(S) : f[i] = f[j] => i = j}

(***************************************************************************)
(* queue.rs.  The operators below work on a record st of the queue state   *)
(* that a handler mutates,                                                 *)
(*   lw = listening_workers, dq = deque, up, allow_drop,                   *)
(*   checked_out = worker_tokens_checked_out,                              *)
(*   durations = worker_token_duration, dlog = dispatch_log,               *)
(*   chosen = choose_log, abort,                                           *)
(* and return the set of possible outcomes: a random choice of the source  *)
(* (rng.gen_range, SliceRandom::choose) is any of its values.              *)
(***************************************************************************)
None == 0      \* Option::None for a worker id

WorkerToken(w, ts, q) ==
    [worker |-> w, checkout_timestamp |-> ts, originating_queue_name |-> q]

\* the inner handlers given to mk_enqueued_handler (they receive the token):
\*   work:    returns one proposed event, delayed by hold, whose
\*            token-restoring handler gives the token back;
\*   instant: gives the token back at once, calling the token-restoring
\*            handler in the tick of the checkout.
WorkHandler(hold) == [kind |-> "work", hold |-> hold]
InstantHandler == [kind |-> "instant", hold |-> [mean |-> 0, cv |-> 0]]

TokenRestoringHandler(tokens) == [kind |-> "token_restoring", tokens |-> tokens]
EnqueuedHandler(q, inner) == [kind |-> "enqueued", queue |-> q, inner |-> inner]
RequestShutdownHandler(w) == [kind |-> "request_shutdown", worker |-> w]

ProposedEvent(dist, handler) == [due_time |-> dist, handler |-> handler]

Panicked(st, msg) == [st EXCEPT !.abort = msg]

\* mutant: the up gauge is left as it is
shutdown_keeps_up(st, w) ==
    [st EXCEPT !.allow_drop[w] = TRUE]

\* Worker::shutdown
shutdown(st, w) ==
    [st EXCEPT !.up[w] = 0, !.allow_drop[w] = TRUE]

\* how often queue q occurs in the subscription list of w
Occurrences(w, q) ==
    Cardinality({i \in DOMAIN subscribed_queues[w] : subscribed_queues[w][i] = q})

\* mutant: the worker chosen first is returned whatever its status
pick_worker_any_status(st, q) ==
    IF st.lw[q] = {}
    THEN {[st |-> st, worker |-> None]}
    ELSE {[st |-> [st EXCEPT !.lw = [p \in Queues |->
                        IF p = q \/ p \in Range(subscribed_queues[w])
                        THEN st.lw[p] \ {w} ELSE st.lw[p]]],
           worker |-> w] : w \in st.lw[q]}

\* Queue::pick_worker on queue q: outcomes [st, worker]
RECURSIVE pick_worker(_, _)
pick_worker(st, q) ==
    IF st.lw[q] = {}
    THEN {[st |-> st, worker |-> None]}
    ELSE UNION {
        LET \* self.listening_workers.remove, then the loop over subscribed_queues:
            \* the queue itself cannot be borrowed again, every other one can
            removed == [st EXCEPT !.lw = [p \in Queues |->
                            IF p = q \/ p \in Range(subscribed_queues[w])
                            THEN st.lw[p] \ {w} ELSE st.lw[p]]]
        IN  IF Occurrences(w, q) > 1
            THEN {[st |-> Panicked(removed, "Failed to borrow_mut more than one queue in subscribed_queues"),
                   worker |-> None]}
            ELSE IF Occurrences(w, q) = 0
            THEN {[st |-> Panicked(removed, "assertion failed: found_self"), worker |-> None]}
            ELSE IF \E p \in Queues : w \in removed.lw[p]
            THEN {[st |-> Panicked(removed, "Rc::into_inner: worker still shared"), worker |-> None]}
            ELSE IF status[w] # Running
            THEN pick_worker(shutdown(removed, w), q)
            ELSE {[st |-> removed, worker |-> w]}
        : w \in st.lw[q] }

\* a handler invoked with a token: the tokens-checked-out tally and the log
CheckedOut(st, token, item) ==
    [st EXCEPT
        !.checked_out[<<token.worker, token.originating_queue_name>>] = @ + 1,
        !.dlog = Append(@, [id |-> item.id, queue |-> token.originating_queue_name,
                            kind |-> item.inner.kind,
                            enqueued_at |-> item.enqueued_at,
                            at |-> token.checkout_timestamp,
                            worker |-> token.worker])]

RECURSIVE listen(_, _, _)
RECURSIVE restore_tokens(_, _, _, _)
RECURSIVE inner_handler(_, _, _, _)

\* the closure given to mk_enqueued_handler, called with (timestamp, token):
\* outcomes [st, events]
inner_handler(st, ih, timestamp, token) ==
    IF ih.kind = "work"
    THEN {[st |-> st,
           events |-> <<ProposedEvent(ih.hold, TokenRestoringHandler(<<token>>))>>]}
    ELSE restore_tokens(st, <<token>>, timestamp, <<>>)

\* mutant: a restore in the tick of the checkout passes the assertion
RestoreAllowed_sametick(token, timestamp) == token.checkout_timestamp <= timestamp

\* the assertion of mk_token_restoring_handler
RestoreAllowed(token, timestamp) == token.checkout_timestamp < timestamp

\* WorkerToken::mk_token_restoring_handler, the loop over tokens_to_restore
restore_tokens(st, tokens, timestamp, followon) ==
    IF tokens = <<>>
    THEN {[st |-> st, events |-> followon]}
    ELSE LET token == Head(tokens) IN
         IF ~RestoreAllowed(token, timestamp)
         THEN {[st |-> Panicked(st, "Cannot restore WorkerToken until after time period it was checked out"),
                events |-> followon]}
         ELSE LET observed == [st EXCEPT !.durations = Append(@,
                                   [labels |-> <<token.worker, token.originating_queue_name>>,
                                    ticks |-> timestamp - token.checkout_timestamp,
                                    at |-> timestamp])]
              IN UNION {
                    IF o.st.abort # NoAbort
                    THEN {o}
                    ELSE restore_tokens(o.st, Tail(tokens), timestamp, followon \o o.events)
                 : o \in listen(observed, token.worker, timestamp) }

\* mutant: the newest handler is taken (pop_back)
pop_back(dq) == [handler |-> dq[Len(dq)], rest |-> SubSeq(dq, 1, Len(dq) - 1)]

\* VecDeque::pop_front on a non-empty deque: the handler taken and what is left
pop_front(dq) == [handler |-> Head(dq), rest |-> Tail(dq)]

\* mutant: the deques are not looked at, no queue counts as non-empty
nonempty_queues_none(st, w) == SelectSeq(subscribed_queues[w], LAMBDA q : FALSE)

\* the subscribed queues of w whose deque is not empty, in subscription order
nonempty_queues(st, w) ==
    SelectSeq(subscribed_queues[w], LAMBDA q : st.dq[q] # <<>>)

\* mutant: the worker is put into no listening set
returned_nowhere(st, w) == st

\* mutant: the worker is put back into the first queue of its list only
returned_first_only(st, w) ==
    [st EXCEPT !.lw[subscribed_queues[w][1]] = @ \cup {w}]

\* "return worker to all subscribed queues"
returned(st, w) ==
    [st EXCEPT !.lw = [q \in Queues |->
        IF q \in Range(subscribed_queues[w]) THEN st.lw[q] \cup {w} ELSE st.lw[q]]]

\* SliceRandom::choose(&nonempty_queues[..], &mut self.rng): the indexes the
\* rng of worker w can yield.  The rng is seeded, so in the replay of a run
\* it yields what it yielded in the first run as long as it was asked the
\* same questions; otherwise any index.
ChooseIndexes(st, w, options) ==
    LET mine == SelectSeq(st.chosen, LAMBDA c : c.worker = w)
        saved == SelectSeq(first_run.choose_log, LAMBDA c : c.worker = w)
        k == Len(mine)
    IN  IF /\ run = 2
           /\ k < Len(saved)
           /\ SubSeq(saved, 1, k) = mine
           /\ saved[k + 1].options = options
        THEN {saved[k + 1].choice}
        ELSE DOMAIN options

\* mutant: the token of the follow-on handler names the first subscribed
\* queue of the worker, not the chosen one
take_followon_first_origin(st, w, timestamp) ==
    UNION {
        LET chosen_queue == nonempty_queues(st, w)[i]
            front == pop_front(st.dq[chosen_queue])
            popped == [st EXCEPT !.dq[chosen_queue] = front.rest,
                                 !.chosen = Append(@, [worker |-> w,
                                                       options |-> nonempty_queues(st, w),
                                                       choice |-> i])]
            followon_token == WorkerToken(w, timestamp, subscribed_queues[w][1])
        IN  inner_handler(CheckedOut(popped, followon_token, front.handler),
                          front.handler.inner, timestamp, followon_token)
        : i \in ChooseIndexes(st, w, nonempty_queues(st, w)) }

\* "this worker picks up a new handler from a nonempty queue"
take_followon(st, w, timestamp) ==
    UNION {
        LET chosen_queue == nonempty_queues(st, w)[i]
            front == pop_front(st.dq[chosen_queue])
            popped == [st EXCEPT !.dq[chosen_queue] = front.rest,
                                 !.chosen = Append(@, [worker |-> w,
                                                       options |-> nonempty_queues(st, w),
                                                       choice |-> i])]
            followon_token == WorkerToken(w, timestamp, chosen_queue)
        IN  inner_handler(CheckedOut(popped, followon_token, front.handler),
                          front.handler.inner, timestamp, followon_token)
        : i \in ChooseIndexes(st, w, nonempty_queues(st, w)) }

\* mutant: the worker is put back into the listening sets before the deques
\* are looked at, also when it goes on to take a handler
listen_insert_first(st, w, timestamp) ==
    LET isUp == [st EXCEPT !.up[w] = 1]
    IN  IF status[w] # Running
        THEN {[st |-> shutdown(isUp, w), events |-> <<>>]}
        ELSE IF nonempty_queues(isUp, w) = <<>>
        THEN {[st |-> returned(isUp, w), events |-> <<>>]}
        ELSE take_followon(returned(isUp, w), w, timestamp)

\* mutant: the gauge is set to 1 at the end of listen, after a shutdown too
listen_gauge_last(st, w, timestamp) ==
    IF status[w] # Running
    THEN {[st |-> [shutdown(st, w) EXCEPT !.up[w] = 1], events |-> <<>>]}
    ELSE IF nonempty_queues(st, w) = <<>>
    THEN {[st |-> [returned(st, w) EXCEPT !.up[w] = 1], events |-> <<>>]}
    ELSE take_followon([st EXCEPT !.up[w] = 1], w, timestamp)

\* mutant: the status cell is not read, a worker asked to shut down goes on
listen_ignores_status(st, w, timestamp) ==
    LET isUp == [st EXCEPT !.up[w] = 1]
    IN  IF nonempty_queues(isUp, w) = <<>>
        THEN {[st |-> returned(isUp, w), events |-> <<>>]}
        ELSE take_followon(isUp, w, timestamp)

\* Worker::listen: outcomes [st, events]
listen(st, w, timestamp) ==
    LET isUp == [st EXCEPT !.up[w] = 1]
    IN  IF status[w] # Running
        THEN {[st |-> shutdown(isUp, w), events |-> <<>>]}
        ELSE IF nonempty_queues(isUp, w) = <<>>
        THEN {[st |-> returned(isUp, w), events |-> <<>>]}
        ELSE take_followon(isUp, w, timestamp)

\* mutant: a handler that finds no worker is put at the front of the deque
enqueued_handler_inner_push_front(st, q, ih, timestamp, id) ==
    LET item == [inner |-> ih, id |-> id, enqueued_at |-> timestamp]
        pushed(s) == [s EXCEPT !.dq[q] = <<item>> \o @]
    IN  IF st.dq[q] = <<>>
        THEN UNION {
                IF p.st.abort # NoAbort
                THEN {[st |-> p.st, events |-> <<>>]}
                ELSE IF p.worker # None
                THEN LET token == WorkerToken(p.worker, timestamp, q)
                     IN inner_handler(CheckedOut(p.st, token, item), ih, timestamp, token)
                ELSE {[st |-> pushed(p.st), events |-> <<>>]}
             : p \in pick_worker(st, q) }
        ELSE {[st |-> pushed(st), events |-> <<>>]}

\* Queue::enqueued_handler_inner on queue q; id names the enqueued closure
enqueued_handler_inner(st, q, ih, timestamp, id) ==
    LET item == [inner |-> ih, id |-> id, enqueued_at |-> timestamp]
        pushed(s) == [s EXCEPT !.dq[q] = Append(@, item)]
    IN  IF st.dq[q] = <<>>
        THEN UNION {
                IF p.st.abort # NoAbort
                THEN {[st |-> p.st, events |-> <<>>]}
                ELSE IF p.worker # None
                THEN LET token == WorkerToken(p.worker, timestamp, q)
                     IN inner_handler(CheckedOut(p.st, token, item), ih, timestamp, token)
                ELSE {[st |-> pushed(p.st), events |-> <<>>]}
             : p \in pick_worker(st, q) }
        ELSE {[st |-> pushed(st), events |-> <<>>]}

\* the queue state as a record, and back
QueueState ==
    [lw |-> listening_workers, dq |-> deque, up |-> up, allow_drop |-> allow_drop,
     checked_out |-> worker_tokens_checked_out, durations |-> worker_token_duration,
     dlog |-> dispatch_log, chosen |-> choose_log, abort |-> abort]

SetQueueState(st) ==
    /\ listening_workers' = st.lw
    /\ deque' = st.dq
    /\ up' = st.up
    /\ allow_drop' = st.allow_drop
    /\ worker_tokens_checked_out' = st.checked_out
    /\ worker_token_duration' = st.durations
    /\ dispatch_log' = st.dlog
    /\ choose_log' = st.chosen
    /\ abort' = st.abort

(***************************************************************************)
(* main_loop.rs                                                            *)
(***************************************************************************)
\* mutant: Ord for ScheduledEvent not reversed, the heap yields the greatest due_time
MinDueTime_unreversed(heap) ==
    CHOOSE t \in {e.due_time : e \in heap} : \A e \in heap : t >= e.due_time

\* Ord for ScheduledEvent is reversed, so the max-heap yields the least due_time
MinDueTime(heap) ==
    CHOOSE t \in {e.due_time : e \in heap} : \A e \in heap : t <= e.due_time

\* mutant: the sampled delay is not clamped to one tick
ScheduledDueTime_unclamped(batch_time, sample) == batch_time + sample

\* due_time of a proposed event whose delay was sampled as `sample`
ScheduledDueTime(batch_time, sample) == batch_time + Max(1, sample)

ScheduledEvent(id, batch_time, sample, handler) ==
    [id |-> id, due_time |-> ScheduledDueTime(batch_time, sample), handler |-> handler,
     proposed_at |-> batch_time, sample |-> sample]

\* the event main_loop pushes for initial_handler
InitialEvent(handler) ==
    [id |-> 0, due_time |-> 0, handler |-> handler, proposed_at |-> 0, sample |-> 0]

\* the replay is where the first run was: same invocations, same samples
Replaying ==
    /\ run = 2
    /\ Len(invocations) <= Len(first_run.invocations)
    /\ invocations = SubSeq(first_run.invocations, 1, Len(invocations))
    /\ Len(sample_log) <= Len(first_run.sample_log)
    /\ sample_log = SubSeq(first_run.sample_log, 1, Len(sample_log))

\* SliceRandom::shuffle(&mut simultaneous_events[..], &mut simevent_rng): the
\* orders the seeded rng can yield.  In the replay of a run, the same batch
\* popped from the same heap is laid out as it was in the first run.
ShuffledOrders(batch) ==
    LET n == Cardinality(batch)
        done == Len(invocations)
    IN  IF /\ Replaying
           /\ done + n <= Len(first_run.shuffled)
           /\ {first_run.shuffled[done + i] : i \in 1..n} = {e.id : e \in batch}
        THEN {order \in Permutations_(batch) :
                \A i \in 1..n : order[i].id = first_run.shuffled[done + i]}
        ELSE Permutations_(batch)

\* proposed_event.due_time.sample(&mut schedule_rng) as u64: in the replay of
\* a run, the seeded rng yields for the same distribution what it yielded in
\* the first run.
ScheduleSamples(dist) ==
    LET done == Len(sample_log)
    IN  IF /\ Replaying
           /\ done < Len(first_run.sample_log)
           /\ first_run.sample_log[done + 1].dist = dist
        THEN {first_run.sample_log[done + 1].sample}
        ELSE Samples(dist)

\* mutant: one event of the least due_time is popped, not all of them
PopBatch_one ==
    /\ pc = "loop"
    /\ abort = NoAbort
    /\ event_heap # {}
    /\ \E e \in event_heap :
          /\ e.due_time = MinDueTime(event_heap)
          /\ simultaneous_events' = <<e>>
          /\ event_heap' = event_heap \ {e}
          /\ current_timestamp' = e.due_time
    /\ pc' = "invoke"
    /\ UNCHANGED <<proposed_events, next_id, events_dispatched, abort, invocations,
                   initial_handler, queueVars, srrVars, poolVars, replayVars, sample_log>>

\* while !event_heap.is_empty(): pop every event of the least due_time, shuffle
PopBatch ==
    /\ pc = "loop"
    /\ abort = NoAbort
    /\ event_heap # {}
    /\ LET t == MinDueTime(event_heap)
           batch == {e \in event_heap : e.due_time = t}
       IN /\ \E order \in ShuffledOrders(batch) : simultaneous_events' = order
          /\ event_heap' = event_heap \ batch
          /\ current_timestamp' = t
    /\ pc' = "invoke"
    /\ UNCHANGED <<proposed_events, next_id, events_dispatched, abort, invocations,
                   initial_handler, queueVars, srrVars, poolVars, replayVars, sample_log>>

\* mutant: the loop may end while the heap still holds events
Terminate_early ==
    /\ pc = "loop"
    /\ abort = NoAbort
    /\ pc' = "done"
    /\ UNCHANGED <<event_heap, simultaneous_events, proposed_events, current_timestamp,
                   next_id, events_dispatched, abort, invocations, initial_handler,
                   queueVars, srrVars, poolVars, replayVars, sample_log>>

\* the loop ends when the heap is empty
Terminate ==
    /\ pc = "loop"
    /\ abort = NoAbort
    /\ event_heap = {}
    /\ pc' = "done"
    /\ UNCHANGED <<event_heap, simultaneous_events, proposed_events, current_timestamp,
                   next_id, events_dispatched, abort, invocations, initial_handler,
                   queueVars, srrVars, poolVars, replayVars, sample_log>>

\* the event whose handler main_loop calls next
Invoking(kind) ==
    /\ pc = "invoke"
    /\ abort = NoAbort
    /\ simultaneous_events # <<>>
    /\ Head(simultaneous_events).handler.kind = kind

\* mutant: the events-dispatched counter is left as it is
Invoked_uncounted(events, panicked) ==
    LET event == Head(simultaneous_events)
        rest == Tail(simultaneous_events)
        collected == proposed_events \o events
    IN /\ invocations' = Append(invocations, [id |-> event.id, timestamp |-> event.due_time])
       /\ IF panicked
          THEN UNCHANGED <<simultaneous_events, proposed_events, events_dispatched, pc>>
          ELSE /\ events_dispatched' = events_dispatched
               /\ simultaneous_events' = rest
               /\ proposed_events' = collected
               /\ pc' = IF rest # <<>> THEN "invoke"
                        ELSE IF collected # <<>> THEN "push" ELSE "loop"
       /\ UNCHANGED <<event_heap, current_timestamp, next_id, initial_handler,
                      poolVars, replayVars, sample_log>>

\* the handler of the head event was called with its due_time; it returned
\* `events`, or panicked (panicked = TRUE)
Invoked(events, panicked) ==
    LET event == Head(simultaneous_events)
        rest == Tail(simultaneous_events)
        collected == proposed_events \o events
    IN /\ invocations' = Append(invocations, [id |-> event.id, timestamp |-> event.due_time])
       /\ IF panicked
          THEN UNCHANGED <<simultaneous_events, proposed_events, events_dispatched, pc>>
          ELSE /\ events_dispatched' = events_dispatched + 1
               /\ simultaneous_events' = rest
               /\ proposed_events' = collected
               /\ pc' = IF rest # <<>> THEN "invoke"
                        ELSE IF collected # <<>> THEN "push" ELSE "loop"
       /\ UNCHANGED <<event_heap, current_timestamp, next_id, initial_handler,
                      poolVars, replayVars, sample_log>>

\* for proposed_event in proposed_events.drain(..): sample the delay and push
PushProposed ==
    /\ pc = "push"
    /\ abort = NoAbort
    /\ proposed_events # <<>>
    /\ LET proposed_event == Head(proposed_events) IN
       \E sample \in ScheduleSamples(proposed_event.due_time) :
          /\ event_heap' = event_heap \cup
                {ScheduledEvent(next_id, current_timestamp, sample, proposed_event.handler)}
          /\ sample_log' = Append(sample_log,
                                  [dist |-> proposed_event.due_time, sample |-> sample])
    /\ next_id' = next_id + 1
    /\ proposed_events' = Tail(proposed_events)
    /\ pc' = IF Tail(proposed_events) = <<>> THEN "loop" ELSE "push"
    /\ UNCHANGED <<simultaneous_events, current_timestamp, events_dispatched, abort,
                   invocations, initial_handler, queueVars, srrVars, poolVars, replayVars>>

(***************************************************************************)
(* The handlers of a queue run.                                            *)
(***************************************************************************)
Fixed(mean) == [mean |-> mean, cv |-> 0]

\* the workers that exist: those with a subscription
Constructed == {w \in Workers : subscribed_queues[w] # <<>>}

\* the initial handler starts every worker (Worker::listen at tick 0), then
\* proposes its events
RECURSIVE listen_all(_, _, _)
listen_all(st, ws, timestamp) ==
    IF ws = {} THEN {st}
    ELSE LET w == CHOOSE x \in ws : \A y \in ws : x <= y
         IN UNION {listen_all(o.st, ws \ {w}, timestamp) : o \in listen(st, w, timestamp)}

InvokeBootstrap ==
    /\ Invoking("bootstrap")
    /\ \E st \in listen_all(QueueState, Constructed, current_timestamp) :
          /\ SetQueueState(st)
          /\ Invoked(Head(simultaneous_events).handler.events, st.abort # NoAbort)
    /\ UNCHANGED <<subscribed_queues, status, srrVars>>

\* the closure of Queue::mk_enqueued_handler
InvokeEnqueued ==
    /\ Invoking("enqueued")
    /\ LET event == Head(simultaneous_events) IN
       \E o \in enqueued_handler_inner(QueueState, event.handler.queue,
                                       event.handler.inner, event.due_time, event.id) :
          /\ SetQueueState(o.st)
          /\ Invoked(o.events, o.st.abort # NoAbort)
    /\ UNCHANGED <<subscribed_queues, status, srrVars>>

\* the closure of WorkerToken::mk_token_restoring_handler; its inner handler
\* returns no events and the tokens it holds
InvokeTokenRestoring ==
    /\ Invoking("token_restoring")
    /\ LET event == Head(simultaneous_events) IN
       \E o \in restore_tokens(QueueState, event.handler.tokens, event.due_time, <<>>) :
          /\ SetQueueState(o.st)
          /\ Invoked(o.events, o.st.abort # NoAbort)
    /\ UNCHANGED <<subscribed_queues, status, srrVars>>

\* an observer of the status cell asks the worker to shut down
InvokeRequestShutdown ==
    /\ Invoking("request_shutdown")
    /\ status' = [status EXCEPT ![Head(simultaneous_events).handler.worker] = ShuttingDown]
    /\ Invoked(<<>>, FALSE)
    /\ UNCHANGED <<subscribed_queues, listening_workers, deque, up, allow_drop,
                   worker_tokens_checked_out, worker_token_duration, dispatch_log,
                   choose_log, abort, srrVars>>

(***************************************************************************)
(* The queue runs: the subscriptions and the events of the initial handler *)
(* are drawn from small sets.                                              *)
(***************************************************************************)
SubscriptionChoices ==
    { [w \in Workers |-> IF w = 1 THEN <<"Q1">> ELSE <<>>],
      [w \in Workers |-> IF w = 1 THEN <<"Q1", "Q2">> ELSE <<>>],
      [w \in Workers |-> IF w = 1 THEN <<"Q1", "Q2">> ELSE <<"Q2">>],
      [w \in Workers |-> <<"Q1">>],
      \* a queue listed twice in one subscription list
      [w \in Workers |-> IF w = 1 THEN <<"Q1", "Q1">> ELSE <<>>],
      [w \in Workers |-> IF w = 1 THEN <<"Q1", "Q2", "Q2">> ELSE <<>>] }

EnqueueDelays == {10, 20, 30}
\* a request to shut down comes early, after a jittered delay, or at tick 15
Jittered == [mean |-> 1, cv |-> 1]
ShutdownDelays == {Jittered, Fixed(15)}
HoldTimes == {4000}

InnerHandlers == {WorkHandler(Fixed(h)) : h \in HoldTimes} \cup {InstantHandler}

InitialEvents ==
    {ProposedEvent(Fixed(d), EnqueuedHandler(q, ih)) :
        d \in EnqueueDelays, q \in Queues, ih \in InnerHandlers}
    \cup {ProposedEvent(d, RequestShutdownHandler(w)) :
        d \in ShutdownDelays, w \in Workers}

\* the initial handler proposes its events in the order of their delays
InitialPrograms ==
    UNION {
        {p \in [1..n -> InitialEvents] :
            \A i \in 1..(n-1) : p[i].due_time.mean <= p[i+1].due_time.mean}
        : n \in 0..MaxInitialEvents }

BootstrapHandler(events) == [kind |-> "bootstrap", events |-> events]

\* main_loop called with initial_handler: the heap holds it, due at tick 0
SchedulerInit(handler) ==
    /\ initial_handler = handler
    /\ event_heap = {InitialEvent(handler)}
    /\ simultaneous_events = <<>>
    /\ proposed_events = <<>>
    /\ current_timestamp = 0
    /\ pc = "loop"
    /\ next_id = 1
    /\ events_dispatched = 0
    /\ abort = NoAbort
    /\ invocations = <<>>
    /\ sample_log = <<>>

\* queues without listeners and handlers; workers with the given subscriptions
QueueInit(subscriptions) ==
    /\ subscribed_queues = subscriptions
    /\ status = [w \in Workers |-> Running]
    /\ listening_workers = [q \in Queues |-> {}]
    /\ deque = [q \in Queues |-> <<>>]
    /\ up = [w \in Workers |-> 0]
    /\ allow_drop = [w \in Workers |-> FALSE]
    /\ worker_tokens_checked_out = [l \in Workers \X Queues |-> 0]
    /\ worker_token_duration = <<>>
    /\ dispatch_log = <<>>
    /\ choose_log = <<>>

\* a shared-rate resource of n partitions without tenancies
ResourceInit(n) ==
    /\ partitions = n
    /\ resource_timer = 0
    /\ resource_timer_last_updated_real_time = 0
    /\ utilization_counter = 0
    /\ load_counter = 0
    /\ wakeup_event_memo = <<>>
    /\ tenancies = {}
    /\ tenancy_log = <<>>
    /\ tenancy_changes = <<>>

\* PoolManager::new: initial_instances instances are constructed
PoolInit(initial_instances) ==
    /\ instances = [i \in 1..initial_instances |-> i]
    /\ constructed = initial_instances
    /\ shutdowns = <<>>
    /\ pool_call = [op |-> "new", arg |-> initial_instances,
                    before |-> [instances |-> <<>>, constructed |-> 0, shutdowns |-> <<>>],
                    prev |-> [op |-> "none", arg |-> 0]]

\* the first run of a simulation
FirstRun ==
    /\ run = 1
    /\ first_run = [invocations |-> <<>>, sample_log |-> <<>>, choose_log |-> <<>>,
                    shuffled |-> <<>>]

Init ==
    /\ \E program \in InitialPrograms : SchedulerInit(BootstrapHandler(program))
    /\ \E subscriptions \in SubscriptionChoices : QueueInit(subscriptions)
    /\ ResourceInit(1)
    /\ PoolInit(0)
    /\ FirstRun

Next ==
    \/ PopBatch
    \/ InvokeBootstrap
    \/ InvokeEnqueued
    \/ InvokeTokenRestoring
    \/ InvokeRequestShutdown
    \/ PushProposed
    \/ Terminate

Spec == Init /\ [][Next]_vars

(***************************************************************************)
(* main_loop is one sequential loop: whenever it can take its next step    *)
(* (pop a batch, call the next handler, push the next proposed event,      *)
(* leave the loop) it does.                                                *)
(***************************************************************************)
SpecFair == Init /\ [][Next]_vars /\ WF_vars(Next)

(***************************************************************************)
(* A simulation run twice: BaseSimulation::new with the same id seeds the  *)
(* same rng, and main_loop is called with the same initial handler on      *)
(* queues and workers constructed the same way.  The first run is logged,  *)
(* then everything starts again.  What a seeded rng yields is repeated in  *)
(* the second run; the iteration order of a HashSet is not seeded by the   *)
(* simulation (std's RandomState), so Queue::pick_worker may pick any      *)
(* listening worker in either run.                                         *)
(***************************************************************************)
\* how many events the initial handler of a replayed run proposes at most
MaxReplayEvents == 3

ReplayPrograms == {p \in InitialPrograms : Len(p) <= MaxReplayEvents}

Replay ==
    /\ run = 1
    /\ pc = "done" \/ abort # NoAbort
    /\ run' = 2
    \* the batches as they were shuffled: the events invoked, and those a panic
    \* left in the last batch
    /\ first_run' = [invocations |-> invocations, sample_log |-> sample_log,
                     choose_log |-> choose_log,
                     shuffled |-> [i \in DOMAIN invocations |-> invocations[i].id] \o
                                  (IF abort # NoAbort
                                   THEN [i \in 1..(Len(simultaneous_events) - 1) |->
                                            simultaneous_events[i + 1].id]
                                   ELSE <<>>)]
    \* main_loop is called again
    /\ event_heap' = {InitialEvent(initial_handler)}
    /\ simultaneous_events' = <<>>
    /\ proposed_events' = <<>>
    /\ current_timestamp' = 0
    /\ pc' = "loop"
    /\ next_id' = 1
    /\ events_dispatched' = 0
    /\ abort' = NoAbort
    /\ invocations' = <<>>
    /\ sample_log' = <<>>
    \* on queues and workers constructed again
    /\ status' = [w \in Workers |-> Running]
    /\ listening_workers' = [q \in Queues |-> {}]
    /\ deque' = [q \in Queues |-> <<>>]
    /\ up' = [w \in Workers |-> 0]
    /\ allow_drop' = [w \in Workers |-> FALSE]
    /\ worker_tokens_checked_out' = [l \in Workers \X Queues |-> 0]
    /\ worker_token_duration' = <<>>
    /\ dispatch_log' = <<>>
    /\ choose_log' = <<>>
    /\ UNCHANGED <<initial_handler, subscribed_queues, srrVars, poolVars>>

InitReplay ==
    /\ \E program \in ReplayPrograms : SchedulerInit(BootstrapHandler(program))
    /\ \E subscriptions \in SubscriptionChoices : QueueInit(subscriptions)
    /\ ResourceInit(1)
    /\ PoolInit(0)
    /\ FirstRun

NextReplay ==
    \/ PopBatch
    \/ InvokeBootstrap
    \/ InvokeEnqueued
    \/ InvokeTokenRestoring
    \/ InvokeRequestShutdown
    \/ PushProposed
    \/ Terminate
    \/ Replay

SpecReplay == InitReplay /\ [][NextReplay]_vars

(***************************************************************************)
(* shared_rate_resource.rs.  The operators below work on a record r of the *)
(* resource,                                                               *)
(*   partitions, timer = resource_timer,                                   *)
(*   last = resource_timer_last_updated_real_time, utilization, load,      *)
(*   memo = wakeup_event_memo, tenancies, tlog = tenancy_log,              *)
(*   changes = tenancy_changes, abort.                                     *)
(***************************************************************************)
MAX_WAKEUP_EVENT_MEMO_LEN == 8
TICKS_PER_SECOND == 1000
MIN_RESOURCE_TIMER_RESET_VAL == TICKS_PER_SECOND * 120

Min(a, b) == IF a <= b THEN a ELSE b

\* `t as f32`: 24 bits of mantissa, round to nearest, ties to even
RECURSIVE F32Ulp(_)
F32Ulp(t) == IF t < 16777216 THEN 1 ELSE 2 * F32Ulp(t \div 2)

AsF32(t) ==
    LET ulp == F32Ulp(t)
        down == (t \div ulp) * ulp
        rem == t - down
    IN  IF 2 * rem < ulp THEN down
        ELSE IF 2 * rem > ulp THEN down + ulp
        ELSE IF (down \div ulp) % 2 = 0 THEN down ELSE down + ulp

\* (real_time_delta as f64 * min(1.0, partitions / len)) as u64.  For the
\* values of the model the f64 product, truncated, is the integer quotient.
TimerIncrement(real_time_delta, n, k) ==
    IF k <= n THEN real_time_delta ELSE (real_time_delta * n) \div k

\* (timer_delta as f64 / min(1.0, partitions / len)) as u64, likewise
RealTimeDelta(timer_delta, n, k) ==
    IF k <= n THEN timer_delta ELSE (timer_delta * k) \div n

\* BinaryHeap::peek with the reversed Ord: the least due_timer_time
TopDue(heap) ==
    CHOOSE d \in {x.due_timer_time : x \in heap} : \A x \in heap : d <= x.due_timer_time

\* mutant: an idle resource is reset whatever its timer shows
update_resource_timer_resets_always(r, current_timestamp_) ==
    IF ~(r.last <= current_timestamp_)
    THEN Panicked(r, "assertion failed: self.resource_timer_last_updated_real_time <= current_timestamp")
    ELSE IF r.tenancies = {}
    THEN [r EXCEPT !.timer = 0, !.utilization = 0, !.load = 0,
                   !.last = current_timestamp_]
    ELSE IF r.last # current_timestamp_
    THEN LET real_time_delta == current_timestamp_ - r.last
             k == Cardinality(r.tenancies)
             advanced == r.timer + TimerIncrement(real_time_delta, r.partitions, k)
         IN  IF ~(advanced < TopDue(r.tenancies))
             THEN Panicked([r EXCEPT !.timer = advanced],
                     "assertion failed: self.resource_timer < self.tenancies.peek().unwrap().due_timer_time")
             ELSE [r EXCEPT !.timer = advanced,
                            !.utilization = @ + Min(r.partitions, k) * real_time_delta,
                            !.load = @ + k * real_time_delta,
                            !.last = current_timestamp_]
    ELSE [r EXCEPT !.last = current_timestamp_]

\* SharedRateResource::update_resource_timer
update_resource_timer(r, current_timestamp_) ==
    IF ~(r.last <= current_timestamp_)
    THEN Panicked(r, "assertion failed: self.resource_timer_last_updated_real_time <= current_timestamp")
    ELSE IF r.tenancies = {}
    THEN IF r.timer >= MIN_RESOURCE_TIMER_RESET_VAL
         THEN [r EXCEPT !.timer = 0, !.utilization = 0, !.load = 0,
                        !.last = current_timestamp_]
         ELSE [r EXCEPT !.last = current_timestamp_]
    ELSE IF r.last # current_timestamp_
    THEN LET real_time_delta == current_timestamp_ - r.last
             k == Cardinality(r.tenancies)
             advanced == r.timer + TimerIncrement(real_time_delta, r.partitions, k)
         IN  IF ~(advanced < TopDue(r.tenancies))
             THEN Panicked([r EXCEPT !.timer = advanced],
                     "assertion failed: self.resource_timer < self.tenancies.peek().unwrap().due_timer_time")
             ELSE [r EXCEPT !.timer = advanced,
                            !.utilization = @ + Min(r.partitions, k) * real_time_delta,
                            !.load = @ + k * real_time_delta,
                            !.last = current_timestamp_]
    ELSE [r EXCEPT !.last = current_timestamp_]

\* SharedRateResource::get_next_wakeup_time, for a non-empty heap
get_next_wakeup_time(r) ==
    RealTimeDelta(TopDue(r.tenancies) - r.timer, r.partitions, Cardinality(r.tenancies))
        + r.last

\* identity of the next tenancy (its handler is a closure of its own)
NextTenancy(r) == Cardinality(r.tenancies) + Len(r.tlog) + 1

\* the tenant count of r changes at tick `at`; last is the tick the resource
\* timer was brought up to date for
TenancyChange(r, at, op) ==
    [op |-> op, at |-> at, last |-> r.last, k |-> Cardinality(r.tenancies)]

\* SharedRateResource::add_tenancy; sample is what required_resource_time yields
add_tenancy(r, current_timestamp_, sample) ==
    LET updated == update_resource_timer(r, current_timestamp_)
        actual_req_resource_time == Max(1, sample)
    IN  IF updated.abort # NoAbort THEN updated
        ELSE [updated EXCEPT !.tenancies = @ \cup
                {[due_timer_time |-> updated.timer + actual_req_resource_time,
                  id |-> NextTenancy(updated)]},
                             !.changes = Append(@,
                                TenancyChange(updated, current_timestamp_, "push"))]

\* the closure of a wakeup event; t is the next-wakeup time it was made for
WakeupHandler(t) == [kind |-> "wakeup", t |-> t]

\* the delay distribution of a wakeup event for next-wakeup time t
WakeupDueTime(t) == [mean |-> AsF32(t), cv |-> 0]

\* mutant: the memo is not truncated before the push
maybe_generate_wakeup_event_untruncated(r) ==
    IF r.tenancies = {}
    THEN [r |-> r, events |-> <<>>]
    ELSE LET t == get_next_wakeup_time(r) IN
         IF t \notin Range(r.memo)
         THEN [r |-> [r EXCEPT !.memo = <<t>> \o r.memo],
               events |-> <<ProposedEvent(WakeupDueTime(t), WakeupHandler(t))>>]
         ELSE [r |-> r, events |-> <<>>]

\* SharedRateResource::maybe_generate_wakeup_event: [r, events]
maybe_generate_wakeup_event(r) ==
    IF r.tenancies = {}
    THEN [r |-> r, events |-> <<>>]
    ELSE LET t == get_next_wakeup_time(r) IN
         IF t \notin Range(r.memo)
         THEN [r |-> [r EXCEPT !.memo = <<t>> \o
                        SubSeq(r.memo, 1, Min(Len(r.memo), MAX_WAKEUP_EVENT_MEMO_LEN - 1))],
               events |-> <<ProposedEvent(WakeupDueTime(t), WakeupHandler(t))>>]
         ELSE [r |-> r, events |-> <<>>]

\* SharedRateResource::mk_shared_rate_event: [r, events]
mk_shared_rate_event(r, current_timestamp_, sample) ==
    LET added == add_tenancy(r, current_timestamp_, sample)
    IN  IF added.abort # NoAbort THEN [r |-> added, events |-> <<>>]
        ELSE maybe_generate_wakeup_event(added)

\* the loop of the wakeup handler: pop while the next wakeup time is the
\* timestamp; outcomes [r, handlers] (ties in the heap pop in any order)
RECURSIVE pop_due(_, _, _)
pop_due(r, timestamp, handlers) ==
    IF r.tenancies # {} /\ get_next_wakeup_time(r) = timestamp
    THEN UNION {pop_due([r EXCEPT !.tenancies = @ \ {top},
                                  !.changes = Append(@, TenancyChange(r, timestamp, "pop"))],
                        timestamp, Append(handlers, top))
                : top \in {x \in r.tenancies : x.due_timer_time = TopDue(r.tenancies)}}
    ELSE {[r |-> r, handlers |-> handlers]}

\* the tenancy handlers return no events; each call is logged
RECURSIVE invoke_tenancies(_, _, _)
invoke_tenancies(r, handlers, timestamp) ==
    IF handlers = <<>> THEN r
    ELSE invoke_tenancies(
            [r EXCEPT !.tlog = Append(@, [id |-> Head(handlers).id, timestamp |-> timestamp])],
            Tail(handlers), timestamp)

\* mutant: the timer is brought up to date on every wakeup, a false one too
wakeup_handler_always_updates(r, timestamp) ==
    UNION {
        LET updated == update_resource_timer(p.r, timestamp)
        IN  IF updated.abort # NoAbort
            THEN {[r |-> updated, events |-> <<>>]}
            ELSE {maybe_generate_wakeup_event(
                      invoke_tenancies(updated, [i \in DOMAIN order |-> order[i]], timestamp))
                  : order \in Permutations_(Range(p.handlers))}
        : p \in pop_due(r, timestamp, <<>>) }

\* the handler of a wakeup event: outcomes [r, events]
wakeup_handler(r, timestamp) ==
    UNION {
        LET updated == IF p.handlers # <<>>
                       THEN update_resource_timer(p.r, timestamp)
                       ELSE p.r
        IN  IF updated.abort # NoAbort
            THEN {[r |-> updated, events |-> <<>>]}
            ELSE {maybe_generate_wakeup_event(
                      invoke_tenancies(updated, [i \in DOMAIN order |-> order[i]], timestamp))
                  : order \in Permutations_(Range(p.handlers))}
        : p \in pop_due(r, timestamp, <<>>) }

ResourceState ==
    [partitions |-> partitions, timer |-> resource_timer,
     last |-> resource_timer_last_updated_real_time,
     utilization |-> utilization_counter, load |-> load_counter,
     memo |-> wakeup_event_memo, tenancies |-> tenancies, tlog |-> tenancy_log,
     changes |-> tenancy_changes, abort |-> abort]

SetResourceState(r) ==
    /\ partitions' = r.partitions
    /\ resource_timer' = r.timer
    /\ resource_timer_last_updated_real_time' = r.last
    /\ utilization_counter' = r.utilization
    /\ load_counter' = r.load
    /\ wakeup_event_memo' = r.memo
    /\ tenancies' = r.tenancies
    /\ tenancy_log' = r.tlog
    /\ tenancy_changes' = r.changes
    /\ abort' = r.abort

(***************************************************************************)
(* The handlers of a shared-rate run.                                      *)
(***************************************************************************)
\* a handler that calls mk_shared_rate_event when it is invoked
SharedRateHandler(required) == [kind |-> "shared_rate", required |-> required]

\* the initial handler calls mk_shared_rate_event for each of `now`, then
\* proposes `events`
ResourceBootstrapHandler(now, events) ==
    [kind |-> "resource_bootstrap", now |-> now, events |-> events]

\* mk_shared_rate_event for each required time in turn, at one timestamp:
\* [r, events]
RECURSIVE add_all(_, _, _, _)
add_all(r, required, timestamp, events) ==
    IF required = <<>> \/ r.abort # NoAbort
    THEN {[r |-> r, events |-> events]}
    ELSE UNION {
            LET o == mk_shared_rate_event(r, timestamp, sample)
            IN add_all(o.r, Tail(required), timestamp, events \o o.events)
         : sample \in Samples(Head(required)) }

InvokeResourceBootstrap ==
    /\ Invoking("resource_bootstrap")
    /\ LET event == Head(simultaneous_events) IN
       \E o \in add_all(ResourceState, event.handler.now, event.due_time, <<>>) :
          /\ SetResourceState(o.r)
          /\ Invoked(o.events \o event.handler.events, o.r.abort # NoAbort)
    /\ UNCHANGED queueVars

InvokeSharedRate ==
    /\ Invoking("shared_rate")
    /\ LET event == Head(simultaneous_events) IN
       \E o \in add_all(ResourceState, <<event.handler.required>>, event.due_time, <<>>) :
          /\ SetResourceState(o.r)
          /\ Invoked(o.events, o.r.abort # NoAbort)
    /\ UNCHANGED queueVars

InvokeWakeup ==
    /\ Invoking("wakeup")
    /\ \E o \in wakeup_handler(ResourceState, Head(simultaneous_events).due_time) :
          /\ SetResourceState(o.r)
          /\ Invoked(o.events, o.r.abort # NoAbort)
    /\ UNCHANGED queueVars

(***************************************************************************)
(* The shared-rate runs: the partitions, the tenancies added by the        *)
(* initial handler and those added later are drawn from small sets.        *)
(***************************************************************************)
\* how many tenancies a run adds at most
MaxTenancies == 3

PartitionChoices == {1, 2}
RequiredTimes == {Fixed(1), Fixed(3), Fixed(1000)}
AddDelays == {Jittered, Fixed(5)}

LaterAdds ==
    {ProposedEvent(d, SharedRateHandler(req)) : d \in AddDelays, req \in RequiredTimes}

ResourcePrograms ==
    UNION { UNION {
        { ResourceBootstrapHandler(now, later) :
            now \in {p \in [1..n -> RequiredTimes] :
                        \A i \in 1..(n-1) : p[i].mean <= p[i+1].mean},
            later \in {p \in [1..m -> LaterAdds] :
                        \A i \in 1..(m-1) : p[i].due_time.mean <= p[i+1].due_time.mean} }
        : m \in 0..(MaxTenancies - n) } : n \in 0..MaxTenancies }

InitResource ==
    /\ \E handler \in ResourcePrograms : SchedulerInit(handler)
    /\ QueueInit([w \in Workers |-> <<>>])
    /\ \E n \in PartitionChoices : ResourceInit(n)
    /\ PoolInit(0)
    /\ FirstRun

NextResource ==
    \/ PopBatch
    \/ InvokeResourceBootstrap
    \/ InvokeSharedRate
    \/ InvokeWakeup
    \/ PushProposed
    \/ Terminate

SpecResource == InitResource /\ [][NextResource]_vars

(***************************************************************************)
(* Shared-rate runs that keep one resource busy: the initial handler       *)
(* proposes a tenancy every AddEvery ticks, up to MaxMemoAdds of them, so  *)
(* that more wakeup times are computed than the memo holds.                *)
(***************************************************************************)
MaxMemoAdds == 9
AddEvery == 5
MemoRequiredTimes == {Fixed(1000), Fixed(2000)}

MemoPrograms ==
    UNION {
        { ResourceBootstrapHandler(<<>>,
            [i \in 1..n |-> ProposedEvent(Fixed(AddEvery * i), SharedRateHandler(req[i]))])
          : req \in [1..n -> MemoRequiredTimes] }
        : n \in 0..MaxMemoAdds }

InitMemo ==
    /\ \E handler \in MemoPrograms : SchedulerInit(handler)
    /\ QueueInit([w \in Workers |-> <<>>])
    /\ \E n \in PartitionChoices : ResourceInit(n)
    /\ PoolInit(0)
    /\ FirstRun

SpecMemo == InitMemo /\ [][NextResource]_vars

(***************************************************************************)
(* Shared-rate runs in which the resource falls idle with its timer below, *)
(* at and above MIN_RESOURCE_TIMER_RESET_VAL: a tenancy added at tick 0,   *)
(* tenancies added later that are due at the same timer value.             *)
(***************************************************************************)
MaxIdleAdds == 2
IdleFirst == {<<>>, <<Fixed(1000)>>, <<Fixed(200000)>>}
IdleDelays == {5, MIN_RESOURCE_TIMER_RESET_VAL - 1, MIN_RESOURCE_TIMER_RESET_VAL, 130000}
IdleRequiredTimes == {Fixed(995), Fixed(80001), Fixed(80000), Fixed(70000)}

IdleAdds ==
    {ProposedEvent(Fixed(d), SharedRateHandler(req)) :
        d \in IdleDelays, req \in IdleRequiredTimes}

IdlePrograms ==
    UNION {
        { ResourceBootstrapHandler(now, later) :
            now \in IdleFirst,
            later \in {p \in [1..m -> IdleAdds] :
                        \A i \in 1..(m-1) : p[i].due_time.mean <= p[i+1].due_time.mean} }
        : m \in 0..MaxIdleAdds }

InitIdle ==
    /\ \E handler \in IdlePrograms : SchedulerInit(handler)
    /\ QueueInit([w \in Workers |-> <<>>])
    /\ \E n \in PartitionChoices : ResourceInit(n)
    /\ PoolInit(0)
    /\ FirstRun

SpecIdle == InitIdle /\ [][NextResource]_vars

(***************************************************************************)
(* pool_manager.rs.  The operators below work on a record pm of the pool   *)
(* manager: instances (each instance is named by the number of the         *)
(* constructor call that made it), constructed, shutdowns, abort.          *)
(***************************************************************************)
\* the largest instance count a call asks for, and how many instances a run
\* constructs at most
MaxPoolCount == 3
MaxConstructed == 6

\* the panic of Result::unwrap on the failed u32::try_from
PoolUnderflow == "called Result::unwrap() on an Err value: TryFromIntError"

\* mutant: one instance more than asked for is constructed
grow_one_more(pm, count) ==
    IF Len(pm.instances) <= count
    THEN [pm EXCEPT !.instances = pm.instances \o
                        [i \in 1..(count + 1 - Len(pm.instances)) |-> pm.constructed + i],
                    !.constructed = pm.constructed + (count + 1 - Len(pm.instances))]
    ELSE pm

\* while instances.len() < count: push_back((instance_constructor)())
RECURSIVE grow(_, _)
grow(pm, count) ==
    IF Len(pm.instances) < count
    THEN grow([pm EXCEPT !.instances = Append(@, pm.constructed + 1),
                         !.constructed = @ + 1], count)
    ELSE pm

\* mutant: the newest instances retire first (pop_back)
shrink_newest(pm, count) ==
    IF Len(pm.instances) > count
    THEN [pm EXCEPT !.instances = SubSeq(pm.instances, 1, count),
                    !.shutdowns = pm.shutdowns \o
                        [i \in 1..(Len(pm.instances) - count) |->
                            pm.instances[Len(pm.instances) + 1 - i]]]
    ELSE pm

\* while instances.len() > count: instances.pop_front().unwrap()()
RECURSIVE shrink(_, _)
shrink(pm, count) ==
    IF Len(pm.instances) > count
    THEN shrink([pm EXCEPT !.instances = Tail(@),
                           !.shutdowns = Append(@, Head(pm.instances))], count)
    ELSE pm

\* PoolManager::set_desired_instances_absolute
set_desired_instances_absolute(pm, count) == shrink(grow(pm, count), count)

\* mutant: a negative sum counts as zero
DeltaTarget_clamped(pm, delta) ==
    [ok |-> TRUE, count |-> Max(0, Len(pm.instances) + delta)]

\* u32::try_from(i64::try_from(instances.len()).unwrap() + delta as i64)
DeltaTarget(pm, delta) ==
    [ok |-> Len(pm.instances) + delta >= 0, count |-> Len(pm.instances) + delta]

\* PoolManager::set_desired_instances_delta
set_desired_instances_delta(pm, delta) ==
    LET target == DeltaTarget(pm, delta)
    IN  IF target.ok
        THEN set_desired_instances_absolute(pm, target.count)
        ELSE [pm EXCEPT !.abort = PoolUnderflow]

PoolState ==
    [instances |-> instances, constructed |-> constructed, shutdowns |-> shutdowns,
     abort |-> abort]

\* a call on the pool manager that leaves it as pm
PoolCalled(op, arg, pm) ==
    /\ pm.constructed <= MaxConstructed
    /\ instances' = pm.instances
    /\ constructed' = pm.constructed
    /\ shutdowns' = pm.shutdowns
    /\ abort' = pm.abort
    /\ pool_call' = [op |-> op, arg |-> arg,
                     before |-> [instances |-> instances, constructed |-> constructed,
                                 shutdowns |-> shutdowns],
                     prev |-> [op |-> pool_call.op, arg |-> pool_call.arg]]
    /\ UNCHANGED <<event_heap, simultaneous_events, proposed_events, current_timestamp,
                   pc, next_id, events_dispatched, invocations, initial_handler,
                   sample_log, subscribed_queues, status, listening_workers, deque, up,
                   allow_drop, worker_tokens_checked_out, worker_token_duration,
                   dispatch_log, choose_log, srrVars, replayVars>>

SetDesiredInstancesAbsolute ==
    /\ abort = NoAbort
    /\ \E count \in 0..MaxPoolCount :
          PoolCalled("absolute", count, set_desired_instances_absolute(PoolState, count))

SetDesiredInstancesDelta ==
    /\ abort = NoAbort
    /\ \E delta \in (0 - MaxPoolCount)..MaxPoolCount :
          /\ Len(instances) + delta <= MaxPoolCount
          /\ PoolCalled("delta", delta, set_desired_instances_delta(PoolState, delta))

\* PoolManager::new(instance_constructor, initial_instances); no simulation runs
InitPool ==
    /\ SchedulerInit(BootstrapHandler(<<>>))
    /\ QueueInit([w \in Workers |-> <<>>])
    /\ ResourceInit(1)
    /\ \E initial_instances \in 0..MaxPoolCount : PoolInit(initial_instances)
    /\ FirstRun

NextPool ==
    \/ SetDesiredInstancesAbsolute
    \/ SetDesiredInstancesDelta

SpecPool == InitPool /\ [][NextPool]_vars

(***************************************************************************)
(* Properties.                                                             *)
(***************************************************************************)
\* the scheduled events that have not been invoked yet
Pending == event_heap \cup Range(simultaneous_events)

TokensOf(handler) ==
    IF handler.kind = "token_restoring" THEN Range(handler.tokens) ELSE {}

\* <<holder, token>> for every token a pending or proposed handler holds
HeldTokens ==
    UNION {{<<e.id, tok>> : tok \in TokensOf(e.handler)} : e \in Pending}
    \cup UNION {{<<0 - i, tok>> : tok \in TokensOf(proposed_events[i].handler)}
                : i \in DOMAIN proposed_events}

Listening(w) == \E q \in Queues : w \in listening_workers[q]
InToken(w) == \E h \in HeldTokens : h[2].worker = w
Terminated(w) == allow_drop[w]

RestoredTooEarly == "Cannot restore WorkerToken until after time period it was checked out"
TimerOvershoot ==
    "assertion failed: self.resource_timer < self.tenancies.peek().unwrap().due_timer_time"
BorrowedTwice == "Failed to borrow_mut more than one queue in subscribed_queues"

----
\* C1: the timestamps passed to the handlers main_loop invokes never decrease
\* in invocation order.
C1_TimestampsNonDecreasing ==
    \A i, j \in DOMAIN invocations :
        i < j => invocations[i].timestamp <= invocations[j].timestamp

\* a run that invoked handlers in three different ticks, two in one batch
C1_Witness ==
    /\ \E i, j, k \in DOMAIN invocations :
          /\ invocations[i].timestamp < invocations[j].timestamp
          /\ invocations[j].timestamp < invocations[k].timestamp
    /\ \E i \in DOMAIN invocations : i > 1 /\
          invocations[i].timestamp = invocations[i-1].timestamp

----
\* C2: no worker is at once in a listening set and inside a token; once the
\* workers are started, every worker is owned by exactly one of: the
\* listening sets, one token, nobody because it was shut down.
C2_SingleOwner ==
    \A w \in Constructed :
        /\ ~(Listening(w) /\ InToken(w))
        /\ Cardinality({h \in HeldTokens : h[2].worker = w}) <= 1
        /\ (events_dispatched >= 1 /\ abort = NoAbort) =>
              /\ Listening(w) \/ InToken(w) \/ Terminated(w)
              /\ ~(Listening(w) /\ Terminated(w))
              /\ ~(InToken(w) /\ Terminated(w))

\* a worker subscribed to two queues is checked out again on its restore
\* while another worker listens
C2_Witness ==
    /\ abort = NoAbort
    /\ \E w \in Constructed :
          /\ Len(subscribed_queues[w]) = 2
          /\ InToken(w)
          /\ \E i \in DOMAIN worker_token_duration : worker_token_duration[i].labels[1] = w
    /\ \E v \in Constructed : Listening(v)

----
\* C3: a queue that has a listening worker has no pending handler.
C3_ListenersExcludePending ==
    \A q \in Queues : listening_workers[q] # {} => deque[q] = <<>>

\* a worker subscribed to two queues is back in both listening sets after
\* handlers waited in a deque and a shutdown was requested
C3_Witness ==
    /\ \E w \in Constructed :
          /\ Len(subscribed_queues[w]) = 2
          /\ \A q \in Queues : w \in listening_workers[q]
    /\ \E i \in DOMAIN dispatch_log : dispatch_log[i].enqueued_at < dispatch_log[i].at
    /\ \E w \in Workers : status[w] = ShuttingDown

----
\* C4: on one queue, a handler enqueued at an earlier tick is dispatched no
\* later than one enqueued at a later tick, and the later one is never
\* dispatched while the earlier one waits in the deque.
C4_DispatchFifo ==
    /\ \A i, j \in DOMAIN dispatch_log :
          (/\ dispatch_log[i].queue = dispatch_log[j].queue
           /\ dispatch_log[i].enqueued_at < dispatch_log[j].enqueued_at)
          => (i < j /\ dispatch_log[i].at <= dispatch_log[j].at)
    /\ \A q \in Queues : \A k \in DOMAIN deque[q] : \A j \in DOMAIN dispatch_log :
          dispatch_log[j].queue = q => dispatch_log[j].enqueued_at <= deque[q][k].enqueued_at

\* two handlers that waited in the deque of one queue, enqueued at
\* different ticks, have both been dispatched
C4_Witness ==
    \E i, j \in DOMAIN dispatch_log :
        /\ dispatch_log[i].queue = dispatch_log[j].queue
        /\ dispatch_log[i].enqueued_at < dispatch_log[j].enqueued_at
        /\ dispatch_log[i].enqueued_at < dispatch_log[i].at
        /\ dispatch_log[j].enqueued_at < dispatch_log[j].at

----
\* C5: update_resource_timer leaves resource_timer below the least
\* due_timer_time of a non-empty heap; its assertion never fails.
C5_TimerBelowTop ==
    /\ abort # TimerOvershoot
    /\ tenancies # {} => resource_timer < TopDue(tenancies)

----
\* C6: two partitions, three tenancies of 1000 timer ticks added at tick 0:
\* the run does not abort and ends with the three tenancy handlers invoked,
\* each with timestamp 1500.
SaturationScenario ==
    /\ partitions = 2
    /\ initial_handler =
          ResourceBootstrapHandler(<<Fixed(1000), Fixed(1000), Fixed(1000)>>, <<>>)

C6_Saturation ==
    SaturationScenario =>
        /\ abort = NoAbort
        /\ pc = "done" =>
              /\ Len(tenancy_log) = 3
              /\ \A i \in DOMAIN tenancy_log : tenancy_log[i].timestamp = 1500

----
\* C7: a wakeup event made for next-wakeup time t is scheduled for tick t.
C7_WakeupAtAbsoluteTime ==
    \A e \in Pending : e.handler.kind = "wakeup" => e.due_time = e.handler.t

----
\* C8: an event proposed in the batch of time b with sampled delay d is
\* scheduled for b + max(1, d), which is after b: the batch being invoked
\* holds no event proposed in it.
C8_DueTimeClamped ==
    /\ \A e \in Pending : e.id # 0 =>
          /\ e.sample >= 1 => e.due_time = e.proposed_at + e.sample
          /\ e.sample < 1 => e.due_time = e.proposed_at + 1
          /\ e.due_time >= e.proposed_at + 1
    /\ \A i \in DOMAIN simultaneous_events :
          simultaneous_events[i].id # 0 =>
              simultaneous_events[i].proposed_at < current_timestamp
    /\ pc \in {"invoke", "push"} => \A e \in event_heap : e.due_time > current_timestamp

\* an event whose sampled delay was 0 is being invoked, one tick after the
\* batch that proposed it
C8_Witness ==
    \E i \in DOMAIN simultaneous_events :
        /\ simultaneous_events[i].sample = 0
        /\ simultaneous_events[i].id # 0
        /\ current_timestamp = simultaneous_events[i].proposed_at + 1

----
\* C9: every token is restored at a tick after its checkout; a restore in
\* the tick of the checkout aborts before listen is called on the worker:
\* no duration is observed for it and the worker enters no listening set.
C9_RestoreAfterCheckout ==
    /\ \A i \in DOMAIN worker_token_duration : worker_token_duration[i].ticks > 0
    /\ (\E i \in DOMAIN dispatch_log : dispatch_log[i].kind = "instant")
          => abort = RestoredTooEarly
    /\ abort = RestoredTooEarly =>
          LET last == dispatch_log[Len(dispatch_log)] IN
          /\ last.kind = "instant"
          /\ last.at = current_timestamp
          /\ ~Listening(last.worker)
          /\ deque[last.queue] = <<>> \/ deque[last.queue][1].id # last.id
          /\ \A i \in DOMAIN worker_token_duration :
                worker_token_duration[i].labels[1] = last.worker
                    => worker_token_duration[i].at - worker_token_duration[i].ticks
                          < last.at

\* a token was restored, and then a restore in the tick of its checkout
\* aborted the run
C9_Witness ==
    /\ worker_token_duration # <<>>
    /\ abort = RestoredTooEarly

----
\* C10: one worker listening on Q1, three handlers enqueued on Q1 at ticks
\* 10, 20 and 30, each holding its token for 4000 ticks: the checkouts are at
\* ticks 10, 4010 and 8010, three durations of 4000 ticks are observed, and
\* the worker ends listening on Q1, whose deque is empty.
OneWorkerEnqueue(d) ==
    ProposedEvent(Fixed(d), EnqueuedHandler("Q1", WorkHandler(Fixed(4000))))

OneWorkerScenario ==
    /\ subscribed_queues = [w \in Workers |-> IF w = 1 THEN <<"Q1">> ELSE <<>>]
    /\ initial_handler = BootstrapHandler(
          <<OneWorkerEnqueue(10), OneWorkerEnqueue(20), OneWorkerEnqueue(30)>>)

C10_OneWorkerThreeEnqueues ==
    OneWorkerScenario =>
        /\ abort = NoAbort
        /\ \A i \in DOMAIN dispatch_log :
              dispatch_log[i].at = (i - 1) * 4000 + 10 /\ dispatch_log[i].worker = 1
        /\ \A i \in DOMAIN worker_token_duration : worker_token_duration[i].ticks = 4000
        /\ pc = "done" =>
              /\ Len(dispatch_log) = 3
              /\ Len(worker_token_duration) = 3
              /\ worker_tokens_checked_out[<<1, "Q1">>] = 3
              /\ listening_workers["Q1"] = {1}
              /\ deque["Q1"] = <<>>

C10_Witness == OneWorkerScenario /\ pc = "done" /\ Len(dispatch_log) = 3

----
\* C11: an enqueue on a queue whose only listening worker has been asked to
\* shut down: pick_worker removes the worker and shuts it down (up goes from
\* 1 to 0, the worker may be dropped), no token is made, the handler stays in
\* the deque of the queue, and the run does not abort.
ShutdownPending(q, w) ==
    /\ Invoking("enqueued")
    /\ Head(simultaneous_events).handler.queue = q
    /\ listening_workers[q] = {w}
    /\ status[w] # Running
    /\ Occurrences(w, q) = 1

C11_ShutdownDuringPendingWork ==
    [][\A q \in Queues : \A w \in Workers :
          ShutdownPending(q, w) =>
              /\ up[w] = 1 /\ up'[w] = 0
              /\ ~allow_drop[w] /\ allow_drop'[w]
              /\ \A p \in Queues : w \notin listening_workers'[p]
              /\ dispatch_log' = dispatch_log
              /\ worker_tokens_checked_out' = worker_tokens_checked_out
              /\ Len(deque'[q]) = 1
              /\ deque'[q][1].id = Head(simultaneous_events).id
              /\ abort' = NoAbort
              /\ events_dispatched' = events_dispatched + 1]_vars

\* the only worker, subscribed to Q1 alone, was shut down by an enqueue
\* whose handler waits in the deque
C11_Witness ==
    /\ subscribed_queues = [w \in Workers |-> IF w = 1 THEN <<"Q1">> ELSE <<>>]
    /\ status[1] = ShuttingDown
    /\ up[1] = 0 /\ allow_drop[1]
    /\ Len(deque["Q1"]) = 1
    /\ dispatch_log = <<>>
    /\ abort = NoAbort

----
\* C12: pick_worker on a queue completes without abort when the subscription
\* list of the chosen worker names a queue twice, that very queue included.
C12_DuplicateSubscriptionSafe == abort # BorrowedTwice

----
\* C13: between handler invocations and at termination, events_dispatched
\* is the number of handler invocations main_loop has performed.
C13_DispatchedCountsInvocations ==
    abort = NoAbort => events_dispatched = Len(invocations)

\* a run of at least four invocations, two of them in one batch, has ended
C13_Witness ==
    /\ pc = "done"
    /\ events_dispatched >= 4
    /\ \E i \in DOMAIN invocations : i > 1 /\
          invocations[i].timestamp = invocations[i-1].timestamp

----
\* C14: when the initial handler proposes no events, the scheduler ends at
\* once with events_dispatched = 0.
C14_EmptyRun ==
    (initial_handler = BootstrapHandler(<<>>) /\ pc = "done") => events_dispatched = 0

----
\* C16: once the workers are started, the up gauge of a worker is 1 unless
\* the worker was shut down, and then it is 0; after a shutdown it stays 0.
C16_UpGauge ==
    /\ [](\A w \in Constructed :
            Len(invocations) >= 1 => up[w] = IF allow_drop[w] THEN 0 ELSE 1)
    /\ [][\A w \in Workers : allow_drop[w] => (allow_drop'[w] /\ up'[w] = 0)]_vars

\* one worker was shut down by listen on the restore of its token while
\* another one is checked out
C16_Witness ==
    /\ \E w \in Constructed :
          /\ allow_drop[w] /\ up[w] = 0
          /\ \E i \in DOMAIN worker_token_duration : worker_token_duration[i].labels[1] = w
    /\ \E v \in Constructed : up[v] = 1 /\ InToken(v)

----
\* C17: set_desired_instances_absolute(n) on a pool of m instances leaves n
\* instances; it calls the constructor max(0, n-m) times, appending at the
\* back, and max(0, m-n) shutdown callables, those of the oldest instances
\* in their order, and never does both in one call.
PoolBefore == pool_call.before
PoolNewInstances == SubSeq(instances, Len(PoolBefore.instances) + 1, Len(instances))
PoolNewShutdowns == SubSeq(shutdowns, Len(PoolBefore.shutdowns) + 1, Len(shutdowns))

C17_AbsoluteSetsCount ==
    pool_call.op = "absolute" =>
        LET n == pool_call.arg
            m == Len(PoolBefore.instances)
        IN  /\ abort = NoAbort
            /\ Len(instances) = n
            /\ constructed - PoolBefore.constructed = Max(0, n - m)
            /\ Len(shutdowns) - Len(PoolBefore.shutdowns) = Max(0, m - n)
            /\ n >= m => /\ SubSeq(instances, 1, m) = PoolBefore.instances
                         /\ PoolNewInstances =
                               [i \in 1..(n - m) |-> PoolBefore.constructed + i]
            /\ n <= m => /\ PoolNewShutdowns = SubSeq(PoolBefore.instances, 1, m - n)
                         /\ instances = SubSeq(PoolBefore.instances, m - n + 1, m)
            /\ SubSeq(shutdowns, 1, Len(PoolBefore.shutdowns)) = PoolBefore.shutdowns
            /\ ~(constructed > PoolBefore.constructed /\ PoolNewShutdowns # <<>>)

\* a call retired two instances of a pool that had grown before, and left one
C17_Witness ==
    /\ pool_call.op = "absolute"
    /\ Len(PoolNewShutdowns) = 2
    /\ Len(instances) = 1
    /\ instances[1] > 3

----
\* C18: set_desired_instances_absolute(n) right after
\* set_desired_instances_absolute(n) calls neither the constructor nor a
\* shutdown callable and leaves the instances as they are.
C18_AbsoluteTwiceIsNoOp ==
    (/\ pool_call.op = "absolute"
     /\ pool_call.prev = [op |-> "absolute", arg |-> pool_call.arg])
    => /\ instances = PoolBefore.instances
       /\ constructed = PoolBefore.constructed
       /\ shutdowns = PoolBefore.shutdowns
       /\ abort = NoAbort

\* the count was set to 2 twice in a row, after instances had retired
C18_Witness ==
    /\ pool_call.op = "absolute"
    /\ pool_call.arg = 2
    /\ pool_call.prev = [op |-> "absolute", arg |-> 2]
    /\ shutdowns # <<>>
    /\ Len(instances) = 2

----
\* C19: set_desired_instances_delta(delta) sets the count to
\* |instances| + delta; when that is negative the call aborts with the
\* instances as they were, nothing constructed and nothing shut down.
C19_DeltaSetsCount ==
    pool_call.op = "delta" =>
        IF Len(PoolBefore.instances) + pool_call.arg < 0
        THEN /\ abort = PoolUnderflow
             /\ instances = PoolBefore.instances
             /\ constructed = PoolBefore.constructed
             /\ shutdowns = PoolBefore.shutdowns
        ELSE /\ abort = NoAbort
             /\ Len(instances) = Len(PoolBefore.instances) + pool_call.arg
             /\ instances = set_desired_instances_absolute(PoolBefore,
                    Len(PoolBefore.instances) + pool_call.arg).instances

\* a delta of -2 on a pool of one instance aborted
C19_Witness ==
    /\ pool_call.op = "delta"
    /\ pool_call.arg = 0 - 2
    /\ Len(PoolBefore.instances) = 1
    /\ abort = PoolUnderflow

----
\* C20: every tenancy added through mk_shared_rate_event has its handler
\* invoked, exactly once, while the scheduler runs: the scheduler never runs
\* out of events with a tenancy still in the heap, and no tenancy handler is
\* invoked twice.
C20_TenanciesServed ==
    /\ pc = "done" => tenancies = {}
    /\ \A i, j \in DOMAIN tenancy_log :
          tenancy_log[i].id = tenancy_log[j].id => i = j

----
\* C15: a second run from the same seed and the same initial handler has
\* the invocations of the first run: the same handlers at the same
\* timestamps in the same order, and the same sampled delays.
C15_ReplayIdentical ==
    run = 2 =>
        /\ Len(invocations) <= Len(first_run.invocations)
        /\ invocations = SubSeq(first_run.invocations, 1, Len(invocations))
        /\ Len(sample_log) <= Len(first_run.sample_log)
        /\ sample_log = SubSeq(first_run.sample_log, 1, Len(sample_log))
        /\ (pc = "done" \/ abort # NoAbort) =>
              /\ Len(invocations) = Len(first_run.invocations)
              /\ Len(sample_log) = Len(first_run.sample_log)

----
----
\* C22: a wakeup handler invoked at the tick the top tenancy is due pops
\* every tenancy whose due_timer_time is that of the top and invokes all of
\* them in this invocation, with its timestamp.
WakeupAtDueTick ==
    /\ Invoking("wakeup")
    /\ tenancies # {}
    /\ get_next_wakeup_time(ResourceState) = current_timestamp

C22_WakeupPopsAllDue ==
    [][WakeupAtDueTick =>
          LET due == {x \in tenancies : x.due_timer_time = TopDue(tenancies)}
          IN  /\ abort' = NoAbort
              /\ tenancies' \cap due = {}
              /\ \A x \in due : \E i \in DOMAIN tenancy_log' :
                    /\ i > Len(tenancy_log)
                    /\ tenancy_log'[i] = [id |-> x.id, timestamp |-> current_timestamp]]_vars

----
\* C23: for a non-empty heap, get_next_wakeup_time is the first tick at which
\* the timer, advanced by the rule of update_resource_timer with K
\* unchanged, has reached the due value of the top; at that tick it equals it.
TimerAt(tick) ==
    resource_timer + TimerIncrement(tick - resource_timer_last_updated_real_time,
                                    partitions, Cardinality(tenancies))

C23_NextWakeupReachesDue ==
    tenancies # {} =>
        LET t == get_next_wakeup_time(ResourceState)
        IN  /\ TimerAt(t) = TopDue(tenancies)
            /\ \A u \in resource_timer_last_updated_real_time..(t - 1) :
                  TimerAt(u) < TopDue(tenancies)

----
\* C24: between handler invocations a worker is in the listening set of every
\* queue of its subscription list or in no listening set at all (and never in
\* the set of a queue it is not subscribed to); a worker that pick_worker
\* checks out on one queue is in no listening set when that handler returns.
ListensEverywhere(w) ==
    \A q \in Range(subscribed_queues[w]) : w \in listening_workers[q]

PickedBy(q) ==
    {dispatch_log'[i].worker : i \in (Len(dispatch_log) + 1)..Len(dispatch_log')}
        \cap listening_workers[q]

C24_ListeningAllOrNone ==
    /\ [](\A w \in Workers :
             /\ ListensEverywhere(w) \/ ~Listening(w)
             /\ \A q \in Queues : w \in listening_workers[q] =>
                                     q \in Range(subscribed_queues[w]))
    /\ [][\A q \in Queues : \A w \in PickedBy(q) :
             (Invoking("enqueued") /\ InToken(w)') => ~Listening(w)']_vars

\* a worker subscribed to two queues was picked on its second queue, worked,
\* and is back in both listening sets
C24_Witness ==
    \E w \in Constructed :
        /\ Cardinality(Range(subscribed_queues[w])) = 2
        /\ ListensEverywhere(w)
        /\ \E i \in DOMAIN dispatch_log :
              /\ dispatch_log[i].worker = w
              /\ dispatch_log[i].queue = subscribed_queues[w][2]
              /\ dispatch_log[i].enqueued_at = dispatch_log[i].at
        /\ \E i \in DOMAIN worker_token_duration : worker_token_duration[i].labels[1] = w

----
\* C25: pick_worker never returns a worker whose status is not Running; every
\* non-Running worker it selects leaves all listening sets and is shut down;
\* it goes on with the remaining listeners, so a Running listener is found if
\* there is one, and it returns none only when the listening set of the queue
\* has become empty (the handler is then appended to the deque).
PickingQueue == Head(simultaneous_events).handler.queue

NewDispatches == SubSeq(dispatch_log', Len(dispatch_log) + 1, Len(dispatch_log'))

C25_PickWorkerSkipsNonRunning ==
    [][(/\ Invoking("enqueued")
        /\ deque[PickingQueue] = <<>>
        /\ abort' # BorrowedTwice)
       => LET q == PickingQueue
              picked == IF NewDispatches = <<>> THEN {} ELSE {NewDispatches[1].worker}
              skipped == (listening_workers[q] \ listening_workers'[q]) \ picked
          IN  /\ \A w \in picked : status[w] = Running /\ w \in listening_workers[q]
              /\ \A w \in skipped :
                    /\ status[w] # Running
                    /\ allow_drop'[w] /\ up'[w] = 0
                    /\ ~Listening(w)'
              /\ (\E w \in listening_workers[q] : status[w] = Running) => picked # {}
              /\ picked = {} =>
                    /\ listening_workers'[q] = {}
                    /\ Len(deque'[q]) = 1
                    /\ deque'[q][1].id = Head(simultaneous_events).id]_vars

\* one enqueue was invoked so far: it shut down a listener that was asked to
\* shut down and dispatched its handler to the other listener of the queue
C25_Witness ==
    /\ abort = NoAbort
    /\ Len(dispatch_log) = 1
    /\ worker_token_duration = <<>>
    /\ \A q \in Queues : deque[q] = <<>>
    /\ \E w, v \in Constructed :
          /\ w # v
          /\ allow_drop[w] /\ up[w] = 0 /\ status[w] = ShuttingDown
          /\ dispatch_log[1].worker = v
          /\ dispatch_log[1].queue \in Range(subscribed_queues[w])

----
\* C26: a shutdown request never aborts in-flight work.  A worker asked to
\* shut down while it is checked out stays inside its token (it is not shut
\* down and listens nowhere) until the token is restored; on that restore
\* listen shuts it down, puts it into no listening set, pops no handler from
\* any deque, even a non-empty subscribed one, invokes nothing and returns no
\* proposed events.
RestoredWorkers ==
    {Head(simultaneous_events).handler.tokens[i].worker :
        i \in DOMAIN Head(simultaneous_events).handler.tokens}

C26_ShutdownSparesInFlightWork ==
    /\ [](\A w \in Constructed :
             (InToken(w) /\ status[w] = ShuttingDown) =>
                 /\ ~allow_drop[w]
                 /\ ~Listening(w)
                 /\ up[w] = 1)
    /\ [][(/\ Invoking("token_restoring")
           /\ \A w \in RestoredWorkers : status[w] # Running)
          => /\ abort' = NoAbort
             /\ \A w \in RestoredWorkers :
                   allow_drop'[w] /\ up'[w] = 0 /\ ~Listening(w)'
             /\ deque' = deque
             /\ listening_workers' = listening_workers
             /\ dispatch_log' = dispatch_log
             /\ worker_tokens_checked_out' = worker_tokens_checked_out
             /\ proposed_events' = proposed_events
             /\ Len(worker_token_duration') = Len(worker_token_duration) + 1]_vars

\* a worker that was asked to shut down during its work was shut down at the
\* restore of its token, while a handler waits in a deque it is subscribed to
C26_Witness ==
    /\ abort = NoAbort
    /\ \E w \in Constructed :
          /\ status[w] = ShuttingDown /\ allow_drop[w] /\ up[w] = 0
          /\ \E i \in DOMAIN worker_token_duration :
                /\ worker_token_duration[i].labels[1] = w
                /\ worker_token_duration[i].at = current_timestamp
                /\ worker_token_duration[i].ticks = 4000
          /\ \E q \in Range(subscribed_queues[w]) : deque[q] # <<>>

----
\* C27: when a Running worker calls listen at tick t (the restore of its
\* token) and a subscribed queue has a non-empty deque, exactly one handler
\* is removed, the head of the deque of one of the non-empty subscribed
\* queues; it is invoked with a new token whose checkout_timestamp is t and
\* whose originating queue is that queue; the worker is put into no listening
\* set and every other deque is unchanged.
FollowonCase(w) ==
    /\ Invoking("token_restoring")
    /\ Head(simultaneous_events).handler.tokens = <<Head(simultaneous_events).handler.tokens[1]>>
    /\ Head(simultaneous_events).handler.tokens[1].worker = w
    /\ status[w] = Running
    /\ \E q \in Range(subscribed_queues[w]) : deque[q] # <<>>
    /\ \A q \in Queues : \A i \in DOMAIN deque[q] : deque[q][i].inner.kind = "work"

C27_ListenTakesOneHead ==
    [][\A w \in Constructed : FollowonCase(w) =>
          LET t == current_timestamp IN
          /\ abort' = NoAbort
          /\ Len(dispatch_log') = Len(dispatch_log) + 1
          /\ \E q \in Range(subscribed_queues[w]) :
                /\ deque[q] # <<>>
                /\ deque'[q] = Tail(deque[q])
                /\ \A p \in Queues \ {q} : deque'[p] = deque[p]
                /\ LET d == dispatch_log'[Len(dispatch_log')] IN
                      /\ d.id = Head(deque[q]).id
                      /\ d.worker = w /\ d.queue = q /\ d.at = t
                /\ worker_tokens_checked_out' =
                      [worker_tokens_checked_out EXCEPT ![<<w, q>>] = @ + 1]
                /\ proposed_events' = proposed_events \o
                      <<ProposedEvent(Head(deque[q]).inner.hold,
                                      TokenRestoringHandler(<<WorkerToken(w, t, q)>>))>>
          /\ ~Listening(w)'
          /\ listening_workers' = listening_workers]_vars

\* a worker subscribed to two queues, both with waiting handlers, took the
\* head of one of them at the restore of its token; the other deque still
\* holds its handler
C27_Witness ==
    /\ abort = NoAbort
    /\ Len(dispatch_log) >= 2
    /\ LET d == dispatch_log[Len(dispatch_log)]
           w == d.worker
       IN  /\ Cardinality(Range(subscribed_queues[w])) = 2
           /\ d.enqueued_at < d.at
           /\ d.at = current_timestamp
           /\ InToken(w)
           /\ \E p \in Range(subscribed_queues[w]) \ {d.queue} : deque[p] # <<>>

----
\* C28: an enqueue on a queue whose deque is non-empty, or for which
\* pick_worker yields no Running worker, appends the handler at the back of
\* the deque of that queue, creates no token, invokes no handler and returns
\* no proposed events; handlers enqueued on a queue on which no worker ever
\* listens are all in its deque, in the order of their ticks, when the
\* scheduler has drained, with no checkout.
\* the events of the initial handler that enqueue on q; the k-th proposed
\* event of the initial handler is scheduled with id k
EnqueuesOn(q) ==
    {k \in DOMAIN initial_handler.events :
        /\ initial_handler.events[k].handler.kind = "enqueued"
        /\ initial_handler.events[k].handler.queue = q}

NoListenerEver(q) == \A w \in Workers : q \notin Range(subscribed_queues[w])

C28_EnqueueWithoutWorker ==
    /\ [][(/\ Invoking("enqueued")
           /\ \/ deque[PickingQueue] # <<>>
              \/ \A w \in listening_workers[PickingQueue] : status[w] # Running
           /\ abort' # BorrowedTwice)
          => LET q == PickingQueue
                 event == Head(simultaneous_events)
             IN  /\ abort' = NoAbort
                 /\ Len(deque'[q]) = Len(deque[q]) + 1
                 /\ SubSeq(deque'[q], 1, Len(deque[q])) = deque[q]
                 /\ deque'[q][Len(deque'[q])].id = event.id
                 /\ deque'[q][Len(deque'[q])].inner = event.handler.inner
                 /\ \A p \in Queues \ {q} : deque'[p] = deque[p]
                 /\ dispatch_log' = dispatch_log
                 /\ worker_tokens_checked_out' = worker_tokens_checked_out
                 /\ worker_token_duration' = worker_token_duration
                 /\ proposed_events' = proposed_events]_vars
    /\ [](\A q \in Queues : (pc = "done" /\ NoListenerEver(q)) =>
             /\ Len(deque[q]) = Cardinality(EnqueuesOn(q))
             /\ {deque[q][i].id : i \in DOMAIN deque[q]} = EnqueuesOn(q)
             /\ \A i, j \in DOMAIN deque[q] :
                   i < j => deque[q][i].enqueued_at <= deque[q][j].enqueued_at
             /\ \A w \in Workers : worker_tokens_checked_out[<<w, q>>] = 0)

\* the scheduler has drained after two enqueues on a queue without workers
C28_Witness ==
    /\ pc = "done"
    /\ \E q \in Queues :
          /\ NoListenerEver(q)
          /\ Cardinality(EnqueuesOn(q)) = 2
          /\ Len(deque[q]) = 2
          /\ deque[q][1].enqueued_at < deque[q][2].enqueued_at
          /\ \A w \in Workers : worker_tokens_checked_out[<<w, q>>] = 0

----
\* C29: every scheduled event is invoked exactly once, with a timestamp equal
\* to its due_time, in a batch of all and only the pending events of the
\* least due_time; the timestamps of successive batches strictly increase.
InvokedIds == {invocations[i].id : i \in DOMAIN invocations}

C29_BatchesOfMinimumDueTime ==
    /\ [](/\ \A i, j \in DOMAIN invocations :
                invocations[i].id = invocations[j].id => i = j
          /\ \A e \in Pending : e.id \notin InvokedIds \/ abort # NoAbort
          /\ pc = "invoke" =>
                /\ \A e \in Range(simultaneous_events) : e.due_time = current_timestamp
                /\ \A e \in event_heap : e.due_time > current_timestamp
          /\ pc = "done" =>
                /\ InvokedIds = 0..(next_id - 1)
                /\ Len(invocations) = next_id)
    /\ [][(pc = "loop" /\ pc' = "invoke") =>
             /\ Range(simultaneous_events') \cup event_heap' = event_heap
             /\ Range(simultaneous_events') \cap event_heap' = {}
             /\ Len(simultaneous_events') = Cardinality(Range(simultaneous_events'))
             /\ simultaneous_events' # <<>>
             /\ \A e \in Range(simultaneous_events') :
                   /\ e.due_time = current_timestamp'
                   /\ \A f \in event_heap : e.due_time <= f.due_time
             /\ \A f \in event_heap' : f.due_time > current_timestamp'
             /\ invocations # <<>> => current_timestamp' > current_timestamp]_vars
    /\ [][Len(invocations') > Len(invocations) =>
             /\ Len(invocations') = Len(invocations) + 1
             /\ invocations'[Len(invocations')] =
                   [id |-> Head(simultaneous_events).id, timestamp |-> current_timestamp]
             /\ Head(simultaneous_events).due_time = current_timestamp]_vars

\* a run has ended after five or more events in three or more batches, one
\* of them a batch of two, while events proposed later were due earlier than
\* events proposed before them
C29_Witness ==
    /\ pc = "done"
    /\ Len(invocations) >= 5
    /\ Cardinality({invocations[i].timestamp : i \in DOMAIN invocations}) >= 3
    /\ \E i \in DOMAIN invocations : i > 1 /\
          invocations[i].timestamp = invocations[i-1].timestamp
    /\ \E i, j \in DOMAIN invocations : i < j /\ invocations[i].id > invocations[j].id

----
\* C30: main_loop terminates exactly when the event heap is empty.  In a run
\* whose handlers propose finitely many events the loop eventually ends (or
\* a handler panics), and it ends only with an empty heap, after every
\* scheduled event was invoked, whatever the deques of the queues still hold;
\* while an event is pending the loop has not ended.
C30_TerminatesWhenHeapEmpty ==
    /\ <>(pc = "done" \/ abort # NoAbort)
    /\ [](pc = "done" =>
             /\ abort = NoAbort
             /\ Pending = {} /\ proposed_events = <<>>
             /\ Len(invocations) = next_id)
    /\ [][pc' = "done" /\ pc # "done" => pc = "loop" /\ event_heap = {}]_vars
    /\ [](pc = "loop" /\ event_heap # {} /\ abort = NoAbort => ENABLED PopBatch)

\* main_loop has ended although a queue still holds a handler: its only
\* worker was shut down before the handler was enqueued
C30_Witness ==
    /\ pc = "done"
    /\ event_heap = {}
    /\ \E q \in Queues :
          /\ deque[q] # <<>>
          /\ \E w \in Constructed : q \in Range(subscribed_queues[w])
          /\ \A w \in Constructed : q \in Range(subscribed_queues[w]) => allow_drop[w]
    /\ Len(dispatch_log) >= 1

----
\* C31: the wakeup memo never holds more than MAX_WAKEUP_EVENT_MEMO_LEN
\* entries and never the same time twice; maybe_generate_wakeup_event returns
\* no event and leaves the memo as it is when the heap is empty or the next
\* wakeup time t is in the memo, and otherwise puts t at the front of the
\* memo (dropping what lies beyond the bound) and returns exactly one wakeup
\* event, the one made for t.
NewProposed == SubSeq(proposed_events', Len(proposed_events) + 1, Len(proposed_events'))

C31_WakeupMemo ==
    /\ [](/\ Len(wakeup_event_memo) <= MAX_WAKEUP_EVENT_MEMO_LEN
          /\ \A i, j \in DOMAIN wakeup_event_memo :
                wakeup_event_memo[i] = wakeup_event_memo[j] => i = j)
    /\ [][((Invoking("shared_rate") \/ Invoking("wakeup")) /\ abort' = NoAbort) =>
             IF tenancies' = {}
             THEN wakeup_event_memo' = wakeup_event_memo /\ NewProposed = <<>>
             ELSE LET t == get_next_wakeup_time(ResourceState)' IN
                  IF t \in Range(wakeup_event_memo)
                  THEN wakeup_event_memo' = wakeup_event_memo /\ NewProposed = <<>>
                  ELSE /\ wakeup_event_memo' = <<t>> \o
                             SubSeq(wakeup_event_memo, 1,
                                    Min(Len(wakeup_event_memo), MAX_WAKEUP_EVENT_MEMO_LEN - 1))
                       /\ Len(NewProposed) = 1
                       /\ NewProposed[1].handler = WakeupHandler(t)]_vars

\* the memo is full and the time of a wakeup event that is still pending was
\* dropped from it
C31_Witness ==
    /\ abort = NoAbort
    /\ Len(wakeup_event_memo) = MAX_WAKEUP_EVENT_MEMO_LEN
    /\ \E e \in Pending :
          /\ e.handler.kind = "wakeup"
          /\ e.handler.t \notin Range(wakeup_event_memo)

----
\* C32: a false wakeup changes nothing in the accounting of the resource.  A
\* wakeup handler invoked at a tick at which no tenancy is due (the heap is
\* empty or the next wakeup time is not the timestamp) pops no tenancy,
\* invokes no tenancy handler and leaves the heap, resource_timer,
\* resource_timer_last_updated_real_time, utilization_counter and
\* load_counter as they are.
FalseWakeup ==
    /\ Invoking("wakeup")
    /\ tenancies = {} \/ get_next_wakeup_time(ResourceState) # current_timestamp

C32_FalseWakeupChangesNothing ==
    [][FalseWakeup =>
          /\ abort' = NoAbort
          /\ tenancies' = tenancies
          /\ tenancy_log' = tenancy_log
          /\ tenancy_changes' = tenancy_changes
          /\ resource_timer' = resource_timer
          /\ resource_timer_last_updated_real_time' = resource_timer_last_updated_real_time
          /\ utilization_counter' = utilization_counter
          /\ load_counter' = load_counter]_vars

\* a wakeup event (the events scheduled after those of the initial handler)
\* was invoked, later than the timer was last brought up to date, while
\* tenancies wait and none was ever popped
C32_Witness ==
    /\ abort = NoAbort
    /\ tenancies # {}
    /\ tenancy_log = <<>>
    /\ \A i \in DOMAIN tenancy_changes : tenancy_changes[i].op = "push"
    /\ \E i \in DOMAIN invocations :
          /\ invocations[i].id > Len(initial_handler.events)
          /\ invocations[i].id \notin {e.id : e \in Pending}
          /\ invocations[i].timestamp > resource_timer_last_updated_real_time

----
\* C33: update_resource_timer(now) with an empty heap sets resource_timer,
\* utilization_counter and load_counter to 0 if and only if resource_timer is
\* at least MIN_RESOURCE_TIMER_RESET_VAL, and below that leaves the three as
\* they are (an idle resource's timer does not advance); in both cases, and
\* with a non-empty heap, resource_timer_last_updated_real_time becomes now.
\* The function is called by add_tenancy before the push, and by the wakeup
\* handler after its pops.
UpdatesIdle ==
    \/ Invoking("shared_rate") /\ tenancies = {}
    \/ Invoking("wakeup") /\ tenancies' = {} /\ Len(tenancy_changes') > Len(tenancy_changes)

UpdatesBusy ==
    \/ Invoking("shared_rate") /\ tenancies # {}
    \/ Invoking("wakeup") /\ tenancies' # {} /\ Len(tenancy_changes') > Len(tenancy_changes)

ResetDue == resource_timer >= MIN_RESOURCE_TIMER_RESET_VAL

C33_IdleTimerReset ==
    /\ [][UpdatesIdle =>
             /\ abort' = NoAbort
             /\ resource_timer' = IF ResetDue THEN 0 ELSE resource_timer
             /\ utilization_counter' = IF ResetDue THEN 0 ELSE utilization_counter
             /\ load_counter' = IF ResetDue THEN 0 ELSE load_counter
             /\ resource_timer_last_updated_real_time' = current_timestamp]_vars
    /\ [][(UpdatesBusy /\ abort' = NoAbort) =>
             resource_timer_last_updated_real_time' = current_timestamp]_vars

\* a resource whose timer stood at the threshold or above it fell idle and
\* was reset, after its counters had counted
C33_Witness ==
    /\ abort = NoAbort
    /\ tenancies = {}
    /\ Len(tenancy_log) >= 2
    /\ resource_timer = 0 /\ utilization_counter = 0 /\ load_counter = 0
    /\ resource_timer_last_updated_real_time = current_timestamp
    /\ \E i \in DOMAIN tenancy_changes :
          /\ tenancy_changes[i].op = "push"
          /\ tenancy_changes[i].k = 1
          /\ tenancy_changes[i].at >= MIN_RESOURCE_TIMER_RESET_VAL
====
